---------------------------- MODULE Spec2Model ----------------------------
(***************************************************************************)
(* A model of the crop-yield pipeline: the ingestion/merge stage           *)
(* (src/src/data_ingestion.py), the model-selection stage                  *)
(* (src/src/training.py), the text front end (src/app.py) and the          *)
(* dashboard (src/streamlit_app.py), with the files they exchange.         *)
(*                                                                         *)
(* Cells of a table are records.  A numeric cell is [t, n, d]: t is "num"  *)
(* (the rational n/d), "nan" (missing), "N.A." (the text 'N.A.') or "text" *)
(* (any other non-numeric text), and for a number a user types also "inf". *)
(* A text cell is [lead, core, trail]: the text `core` with `lead` blanks  *)
(* before it and `trail` blanks after it.                                  *)
(***************************************************************************)
EXTENDS Integers, Sequences, FiniteSets, TLC

VARIABLES
    old_data,           \* the source directory setup() copies from: name -> [exists, rows]
    raw,                \* data/raw: name -> [exists, rows]
    processed_dir,      \* data/processed exists
    master,             \* data/processed/master_dataset.csv: [exists, rows]
    provenance,         \* ghost: for each master row, the crop record (line of CropData.csv) it came from
    rainfall_expanded,  \* load_data's local, as of its last run
    final_df,           \* load_data's local before the dropna, as of its last run
    last_exit,          \* the program that ended last, and how: [prog, status]
    results,            \* train_models' scored candidates (its printed table), last run
    wrote,              \* ghost: the files the last step wrote
    model_pkl,          \* models/crop_yield_model.pkl: [exists, name, categories]
    running,            \* the program that is running: "none", "app" or "dash"
    pc,                 \* where the running front end is
    loaded,             \* what the running front end loaded: [model, df]
    frame,              \* the input frame the front end built: [some, row, typed]
    screen              \* what the front end showed last: [msg, pred, reply]

vars == <<old_data, raw, processed_dir, master, provenance, rainfall_expanded,
          final_df, last_exit, results, wrote, model_pkl, running, pc,
          loaded, frame, screen>>

-----------------------------------------------------------------------------
(* Cells *)

NaN == [t |-> "nan", n |-> 0, d |-> 1]

Num(k) == [t |-> "num", n |-> k, d |-> 1]

NA == [t |-> "N.A.", n |-> 0, d |-> 1]

Junk == [t |-> "text", n |-> 0, d |-> 1]

Text(core) == [lead |-> 0, core |-> core, trail |-> 0]

Padded(lead, core, trail) == [lead |-> lead, core |-> core, trail |-> trail]

RECURSIVE GCD(_, _)
GCD(a, b) == IF b = 0 THEN a ELSE GCD(b, a % b)

Frac(n, d) ==
    LET g == GCD(IF n < 0 THEN -n ELSE n, d)
    IN [t |-> "num", n |-> n \div g, d |-> d \div g]

isna(c) == c.t = "nan"

fillna(c, v) == IF isna(c) THEN v ELSE c

\* str.upper(): the upper-case form of each text the tables hold
UpperCore(core) ==
    CASE core = "pune" -> "PUNE"
      [] core = "Pune" -> "PUNE"
      [] core = "akola" -> "AKOLA"
      [] core = "nashik" -> "NASHIK"
      [] core = "zzzcrop" -> "ZZZCROP"
      [] OTHER -> core

upper(s) == [s EXCEPT !.core = UpperCore(@)]

strip(s) == [s EXCEPT !.lead = 0, !.trail = 0]

\* DataFrame.replace('N.A.', np.nan) on one cell
replace_NA(c) == IF c.t = "N.A." THEN NaN ELSE c

\* pd.to_numeric(errors='coerce') on one cell
to_numeric(c) == IF c.t = "num" THEN c ELSE NaN

\* a + b on two cells of numeric columns (NaN propagates)
Add(a, b) ==
    IF a.t = "num" /\ b.t = "num"
    THEN Frac(a.n * b.d + b.n * a.d, a.d * b.d)
    ELSE NaN

RECURSIVE FlattenSeq(_)
FlattenSeq(ss) == IF ss = <<>> THEN <<>> ELSE Head(ss) \o FlattenSeq(Tail(ss))

\* pd.merge(L, R, how='left'): every left row in order, once per matching right
\* row (in the right table's order), or once with the right columns missing
LeftMerge(L, R, left_on, right_on, Pad) ==
    FlattenSeq([i \in 1..Len(L) |->
        LET hits == SelectSeq(R, LAMBDA r :
                        \A k \in 1..Len(left_on) : L[i][left_on[k]] = r[right_on[k]])
        IN IF hits = <<>>
           THEN << L[i] @@ Pad >>
           ELSE [j \in 1..Len(hits) |-> L[i] @@ hits[j]]])

Project(row, cols) == [c \in cols |-> row[c]]

-----------------------------------------------------------------------------
(* load_data, src/src/data_ingestion.py *)

RawNames == {"CropData.csv", "MaharashtrastateRainfall.csv", "District_ph.csv", "Crop_ph.csv"}

month_cols == <<"January", "February", "March", "April", "May", "June",
                "July", "August", "September", "October", "November", "December">>

MonthSet == {month_cols[i] : i \in 1..Len(month_cols)}

\* lines 23-25, 66: the key columns normalised; src is the ghost line number
CropClean(crop_data) ==
    [i \in 1..Len(crop_data) |->
        [crop_data[i] EXCEPT !.District_Name = strip(upper(@)),
                             !.Season = strip(@)] @@ [src |-> i]]

\* lines 24, 29-34: district normalised, 'N.A.' made missing, months coerced
\* to numbers with missing as 0; idx is the ghost line number
RainClean(rainfall_data) ==
    [i \in 1..Len(rainfall_data) |->
        LET r == rainfall_data[i]
        IN [c \in DOMAIN r |->
               IF c = "District" THEN strip(upper(r[c]))
               ELSE IF c \in MonthSet THEN fillna(to_numeric(replace_NA(r[c])), Num(0))
               ELSE IF c = "Annual_Total" THEN replace_NA(r[c])
               ELSE r[c]] @@ [idx |-> i]]

\* lines 38-41: each row's early months, filed under the year before
NextYearRain(rd) ==
    [i \in 1..Len(rd) |->
        [District |-> rd[i].District, Year |-> rd[i].Year - 1,
         Jan_Next |-> rd[i].January, Feb_Next |-> rd[i].February,
         Mar_Next |-> rd[i].March, idx_next |-> rd[i].idx]]

NoNextYear == [Jan_Next |-> NaN, Feb_Next |-> NaN, Mar_Next |-> NaN, idx_next |-> 0]

Rain_KharifFromMay(e) ==
    Add(Add(Add(Add(e.May, e.June), e.July), e.August), e.September)

Rain_Kharif(e) ==
    Add(Add(Add(Add(e.June, e.July), e.August), e.September), e.October)

Rain_RabiSameYear(e) ==
    Add(Add(Add(Add(Add(e.October, e.November), e.December), e.January), e.February),
        e.March)

Rain_Rabi(e) ==
    Add(Add(Add(Add(Add(e.October, e.November), e.December),
                fillna(e.Jan_Next, Num(0))),
            fillna(e.Feb_Next, Num(0))),
        fillna(e.Mar_Next, Num(0)))

Rain_Summer(e) == Add(Add(e.March, e.April), e.May)

Rain_WholeYearSummed(e) ==
    Add(Add(Add(Add(Add(Add(Add(Add(Add(Add(Add(e.January, e.February), e.March),
        e.April), e.May), e.June), e.July), e.August), e.September), e.October),
        e.November), e.December)

Rain_WholeYear(e) == e.Annual_Total

\* lines 43-61
RainfallExpanded(rd) ==
    LET joined == LeftMerge(rd, NextYearRain(rd),
                            <<"District", "Year">>, <<"District", "Year">>,
                            NoNextYear)
    IN [i \in 1..Len(joined) |->
           joined[i] @@ [Rain_Kharif |-> Rain_Kharif(joined[i]),
                         Rain_Rabi |-> Rain_Rabi(joined[i]),
                         Rain_Summer |-> Rain_Summer(joined[i]),
                         Rain_WholeYear |-> Rain_WholeYear(joined[i])]]

season_map ==
    [s \in {"Kharif", "Autumn", "Rabi", "Summer", "Whole Year"} |->
        CASE s = "Kharif" -> "Rain_Kharif"
          [] s = "Autumn" -> "Rain_Kharif"
          [] s = "Rabi" -> "Rain_Rabi"
          [] s = "Summer" -> "Rain_Summer"
          [] s = "Whole Year" -> "Rain_WholeYear"]

\* a text cell is equal to the string `core` only when it has no blanks around it
IsString(s, core) == s.lead = 0 /\ s.trail = 0 /\ s.core = core

get_rain(row) ==
    IF /\ \E k \in DOMAIN season_map : IsString(row.Season, k)
       /\ season_map[row.Season.core] \in DOMAIN row
    THEN row[season_map[row.Season.core]]
    ELSE NaN

RainColumns ==
    {"District", "Year", "Annual_Total", "idx", "Jan_Next", "Feb_Next", "Mar_Next",
     "idx_next", "Rain_Kharif", "Rain_Rabi", "Rain_Summer", "Rain_WholeYear"}
        \cup MonthSet

\* lines 80-83: the right columns of a crop record with no rainfall row
NoRain ==
    [c \in RainColumns |->
        IF c \in {"idx", "idx_next"} THEN 0
        ELSE IF c = "District" THEN Text("")
        ELSE IF c = "Year" THEN 0
        ELSE NaN]

\* lines 80-91
MergeRain(cd, re) ==
    LET m == LeftMerge(cd, re,
                       <<"District_Name", "Crop_Year">>, <<"District", "Year">>,
                       NoRain)
    IN [i \in 1..Len(m) |-> m[i] @@ [Actual_Rainfall |-> get_rain(m[i])]]

\* line 95
MergeDistrictPh(m, district_ph) ==
    LeftMerge(m,
              [i \in 1..Len(district_ph) |->
                  [district_ph[i] EXCEPT !.City = strip(upper(@))]],
              <<"District_Name">>, <<"City">>,
              [City |-> Text(""), pH_min |-> NaN, pH_max |-> NaN])

\* lines 98-100
MergeCropPh(m, crop_ph) ==
    LeftMerge([i \in 1..Len(m) |-> [m[i] EXCEPT !.Crop = strip(@)]],
              [i \in 1..Len(crop_ph) |->
                  [pH_min_Range |-> crop_ph[i].pH_min_Range,
                   pH_max_Range |-> crop_ph[i].pH_max_Range,
                   Crop_y |-> strip(crop_ph[i].Crop)]],
              <<"Crop">>, <<"Crop_y">>,
              [pH_min_Range |-> NaN, pH_max_Range |-> NaN, Crop_y |-> Text("")])

cols_to_keep ==
    {"District_Name", "Crop_Year", "Season", "Crop", "Area", "Production",
     "Actual_Rainfall", "pH_min", "pH_max", "pH_min_Range", "pH_max_Range"}

RECURSIVE SumCol(_, _)
SumCol(rows, col) ==
    IF rows = <<>> THEN Num(0)
    ELSE IF isna(Head(rows)[col]) THEN SumCol(Tail(rows), col)
    ELSE Add(Head(rows)[col], SumCol(Tail(rows), col))

\* Series.mean(): over the values that are not missing; missing when there is none
Mean(rows, col) ==
    LET known == SelectSeq(rows, LAMBDA r : ~isna(r[col]))
        s == SumCol(known, col)
    IN IF known = <<>> THEN NaN ELSE Frac(s.n, s.d * Len(known))

\* lines 106-110
FillPh(kept) ==
    [i \in 1..Len(kept) |->
        [kept[i] EXCEPT !.pH_min = fillna(@, Mean(kept, "pH_min")),
                        !.pH_max = fillna(@, Mean(kept, "pH_max"))]]

CompleteRainOnly(row) == ~isna(row.Actual_Rainfall)

\* line 115
Complete(row) == ~isna(row.Actual_Rainfall) /\ ~isna(row.Production)

FinalDf(merged_df) ==
    FillPh([i \in 1..Len(merged_df) |-> Project(merged_df[i], cols_to_keep)])

\* lines 112-120: the rows the dropna keeps, each with the records it came from
Kept(merged_df, fin) ==
    SelectSeq([i \in 1..Len(fin) |->
                  [row |-> fin[i], crop |-> merged_df[i].src, rain |-> merged_df[i].idx]],
              LAMBDA x : Complete(x.row))

Absent == [exists |-> FALSE, rows |-> <<>>]

NoModel == [exists |-> FALSE, name |-> "None", categories |-> <<>>]

Nothing == [model |-> NoModel, df |-> Absent]

NoFrame == [some |-> FALSE, row |-> <<>>, typed |-> <<>>]

NoPred == [made |-> FALSE, raised |-> FALSE, encoding |-> <<>>]

Blank == [msg |-> "", pred |-> NoPred, reply |-> ""]

File(rows) == [exists |-> TRUE, rows |-> rows]

Exit(prog, status) == [prog |-> prog, status |-> status]

CanLoadCropsOnly == raw["CropData.csv"].exists /\ processed_dir

\* load_data reads the four raw files (lines 11-14) and saves under data/processed (line 120)
CanLoad == (\A f \in RawNames : raw[f].exists) /\ processed_dir

\* Each frame of load_data is bound once it is computed, in the order of the code.
LoadData ==
    /\ running = "none"
    /\ CanLoad
    /\ \E rainfall_data \in {RainClean(raw["MaharashtrastateRainfall.csv"].rows)} :
       \E re \in {RainfallExpanded(rainfall_data)} :
       \E crop_data \in {CropClean(raw["CropData.csv"].rows)} :
       \E with_rain \in {MergeRain(crop_data, re)} :
       \E with_soil \in {MergeDistrictPh(with_rain, raw["District_ph.csv"].rows)} :
       \E merged_df \in {MergeCropPh(with_soil, raw["Crop_ph.csv"].rows)} :
       \E fin \in {FinalDf(merged_df)} :
       \E kept \in {Kept(merged_df, fin)} :
          /\ rainfall_expanded' = re
          /\ final_df' = fin
          /\ master' = File([i \in 1..Len(kept) |-> kept[i].row])
          /\ provenance' = [i \in 1..Len(kept) |->
                               [crop |-> kept[i].crop, rain |-> kept[i].rain]]
    /\ last_exit' = Exit("ingestion", "ok")
    /\ wrote' = {"master_dataset.csv"}
    /\ UNCHANGED <<old_data, raw, processed_dir, results, model_pkl,
                   running, pc, loaded, frame, screen>>

\* a raw file that is missing makes read_csv raise; a missing data/processed
\* makes to_csv raise: the stage ends with nothing written
LoadDataFail ==
    /\ running = "none"
    /\ ~CanLoad
    /\ last_exit' = Exit("ingestion", "error")
    /\ wrote' = {}
    /\ UNCHANGED <<old_data, raw, processed_dir, master, provenance,
                   rainfall_expanded, final_df, results, model_pkl,
                   running, pc, loaded, frame, screen>>

-----------------------------------------------------------------------------
(* The raw tables the ingestion stage is run on *)

MaxRainRows == 2

MaxCropRows == 2

Tables(rows, max) == UNION {[1..n -> rows] : n \in 1..max}

Years == {2015, 2016}

Pow2Months ==
    [January |-> Num(1), February |-> Num(2), March |-> Num(4), April |-> Num(8),
     May |-> Num(16), June |-> Num(32), July |-> Num(64), August |-> Num(128),
     September |-> Num(256), October |-> Num(512), November |-> Num(1024),
     December |-> Num(2048)]

ExampleMonths ==
    [January |-> Num(10), February |-> Num(20), March |-> Num(30), April |-> Num(0),
     May |-> Num(5), June |-> Num(150), July |-> Num(200), August |-> Num(180),
     September |-> Num(90), October |-> Num(40), November |-> Num(15),
     December |-> Num(25)]

DirtyMonths ==
    [January |-> NA, February |-> Num(7), March |-> NaN, April |-> Num(1),
     May |-> Junk, June |-> NA, July |-> Num(100), August |-> Junk,
     September |-> Num(3), October |-> Num(9), November |-> NaN,
     December |-> Num(11)]

RainRow(district, year, months, total) ==
    months @@ [District |-> district, Year |-> year, Annual_Total |-> total]

RainRows ==
    {RainRow(d, y, m[1], m[2]) :
        d \in {Text("PUNE"), Padded(0, "pune", 1), Text("AKOLA")},
        y \in Years,
        m \in {<<Pow2Months, Num(4095)>>, <<Pow2Months, NA>>,
               <<ExampleMonths, Num(700)>>, <<DirtyMonths, Junk>>}}

LeanRain(y, a) == RainRow(Text("PUNE"), y, Pow2Months, a)

LeanRainTables ==
    {<<LeanRain(2015, Num(700))>>, <<LeanRain(2015, NA)>>, <<LeanRain(2016, Num(700))>>,
     <<LeanRain(2015, Num(700)), LeanRain(2016, Num(700))>>,
     <<LeanRain(2015, Num(700)), LeanRain(2015, NA)>>}

CropRow(district, year, season, crop, area, production) ==
    [District_Name |-> district, Crop_Year |-> year, Season |-> season,
     Crop |-> crop, Area |-> area, Production |-> production]

CropRows ==
    {CropRow(d, 2015, s, Padded(0, "Rice", 1), Num(10), p) :
        d \in {Padded(1, "pune", 0), Text("NASHIK")},
        s \in {Padded(0, "Kharif", 5), Padded(0, "Whole Year", 1), Text("Winter")},
        p \in {Num(25), NaN}}

DistrictPh(city, lo, hi) == [City |-> city, pH_min |-> lo, pH_max |-> hi]

CropPh(crop, lo, hi) == [Crop |-> crop, pH_min_Range |-> lo, pH_max_Range |-> hi]

PuneSoil == <<DistrictPh(Padded(0, "Pune", 1), Frac(31, 5), Frac(39, 5))>>

RiceSoil == <<CropPh(Padded(1, "Rice", 0), Frac(11, 2), Num(7))>>

DistrictPhTables ==
    {PuneSoil, <<DistrictPh(Text("NASHIK"), Num(6), Frac(81, 10))>>,
     PuneSoil \o <<DistrictPh(Text("PUNE"), Frac(13, 2), Num(8))>>}

CropPhTables ==
    {RiceSoil, <<CropPh(Text("Wheat"), Num(6), Frac(15, 2))>>,
     RiceSoil \o <<CropPh(Text("Rice"), Num(5), Frac(13, 2))>>}

OneCrop ==
    <<CropRow(Text("PUNE"), 2015, Text("Rabi"), Text("Rice"), Num(10), Num(25))>>

RawTables(crop, rain, dph, cph) ==
    [f \in RawNames |->
        CASE f = "CropData.csv" -> File(crop)
          [] f = "MaharashtrastateRainfall.csv" -> File(rain)
          [] f = "District_ph.csv" -> File(dph)
          [] f = "Crop_ph.csv" -> File(cph)]

\* the rainfall table varies
RainStudy ==
    {RawTables(OneCrop, rain, PuneSoil, RiceSoil) : rain \in Tables(RainRows, MaxRainRows)}

\* the crop records and the soil tables vary
MergeStudy ==
    {RawTables(crop, rain, soil[1], soil[2]) :
        crop \in Tables(CropRows, MaxCropRows),
        rain \in LeanRainTables,
        soil \in {s \in DistrictPhTables \X CropPhTables :
                     s[1] = PuneSoil \/ s[2] = RiceSoil}}

\* a raw file is missing, or data/processed is
Incomplete ==
    {[RawTables(OneCrop, <<LeanRain(2015, NA)>>, PuneSoil, RiceSoil)
         EXCEPT ![f] = Absent] : f \in RawNames}

NoFrontEnd ==
    /\ running = "none"
    /\ pc = "off"
    /\ loaded = Nothing
    /\ frame = NoFrame
    /\ screen = Blank

InitIngest ==
    /\ \/ raw \in RainStudy \cup MergeStudy /\ processed_dir = TRUE
       \/ raw \in Incomplete /\ processed_dir = TRUE
       \/ raw = RawTables(OneCrop, <<LeanRain(2015, NA)>>, PuneSoil, RiceSoil)
          /\ processed_dir = FALSE
    /\ old_data = raw
    /\ master = Absent
    /\ provenance = <<>>
    /\ rainfall_expanded = <<>>
    /\ final_df = <<>>
    /\ last_exit = Exit("setup", "ok")
    /\ results = <<>>
    /\ wrote = {}
    /\ model_pkl = NoModel
    /\ NoFrontEnd

NextIngest == LoadData \/ LoadDataFail

SpecIngest == InitIngest /\ [][NextIngest]_vars


-----------------------------------------------------------------------------
(* setup, src/src/setup_data.py *)

\* lines 27-43: the directories are made and each raw file the source
\* directory has is copied over
Setup ==
    /\ running = "none"
    /\ raw' = [f \in RawNames |-> IF old_data[f].exists THEN old_data[f] ELSE raw[f]]
    /\ processed_dir' = TRUE
    /\ last_exit' = Exit("setup", "ok")
    /\ wrote' = {f \in RawNames : old_data[f].exists}
    /\ UNCHANGED <<old_data, master, provenance, rainfall_expanded, final_df,
                   results, model_pkl, running, pc, loaded, frame, screen>>

-----------------------------------------------------------------------------
(* train_models, src/src/training.py *)

cat_features == {"District_Name", "Season", "Crop"}

num_features ==
    {"Area", "Actual_Rainfall", "pH_min", "pH_max", "pH_min_Range", "pH_max_Range"}

\* lines 62-67: the candidates, in the order the loop meets them
models == <<"Linear Regression", "Decision Tree", "Random Forest", "XGBoost">>

MinusInf == [t |-> "-inf", n |-> 0, d |-> 1]

GreaterOrEqual(r2, best_score) ==
    /\ r2.t = "num"
    /\ best_score.t = "-inf" \/ (best_score.t = "num" /\ r2.n * best_score.d >= best_score.n * r2.d)

\* line 97, r2 > best_score: false whenever r2 is NaN
Greater(r2, best_score) ==
    /\ r2.t = "num"
    /\ best_score.t = "-inf" \/ (best_score.t = "num" /\ r2.n * best_score.d > best_score.n * r2.d)

\* lines 69-99: the loop over the scored candidates
RECURSIVE SelectBest(_, _, _)
SelectBest(scored, best_model, best_score) ==
    IF scored = <<>> THEN [best_model |-> best_model, best_score |-> best_score]
    ELSE IF Greater(Head(scored).R2, best_score)
         THEN SelectBest(Tail(scored), Head(scored).Model, Head(scored).R2)
         ELSE SelectBest(Tail(scored), best_model, best_score)

\* line 60, test_size=0.2: the held-out rows number ceil(0.2 n), the rest are
\* fitted on (n up to the tables modelled here, where 0.2 n rounds as n / 5)
TestSize(n) == (n + 4) \div 5

\* lines 56, 83: the categories the one-hot encoder meets in the rows it is fitted on
FittedCategories(df, train) ==
    [f \in cat_features |-> {df[i][f] : i \in train}]

\* the scores a held-out set can give: r2_score of fewer than two samples is NaN
R2Values == {Frac(1, 2), Frac(9, 10)}

Scores(n_test) ==
    IF n_test < 2 THEN {[i \in 1..Len(models) |-> NaN]}
    ELSE [1..Len(models) -> R2Values]

\* lines 24-111, the Master Table being there.  The seeded shuffle is a fixed
\* permutation of the rows that is not computed here: the held-out rows are any
\* TestSize(n) of them.
TrainModels ==
    /\ running = "none"
    /\ master.exists
    /\ Len(master.rows) - TestSize(Len(master.rows)) > 0
    /\ \E test \in SUBSET (1..Len(master.rows)) :
       \E r2 \in Scores(TestSize(Len(master.rows))) :
       \E scored \in {[i \in 1..Len(models) |-> [Model |-> models[i], R2 |-> r2[i]]]} :
       \E best \in {SelectBest(scored, "None", MinusInf)} :
          /\ Cardinality(test) = TestSize(Len(master.rows))
          /\ results' = scored
          /\ IF best.best_model = "None"
             THEN \* line 102: best_model['model'] raises TypeError
                  /\ last_exit' = Exit("training", "error")
                  /\ UNCHANGED model_pkl
                  /\ wrote' = {}
             ELSE /\ last_exit' = Exit("training", "ok")
                  /\ model_pkl' =
                        [exists |-> TRUE, name |-> best.best_model,
                         categories |->
                            FittedCategories(master.rows, (1..Len(master.rows)) \ test)]
                  /\ wrote' = {"crop_yield_model.pkl"}
    /\ UNCHANGED <<old_data, raw, processed_dir, master, provenance,
                   rainfall_expanded, final_df, running, pc, loaded, frame, screen>>

\* lines 21-22: no Master Table; line 60: a table too short to split
TrainFail ==
    /\ running = "none"
    /\ ~master.exists \/ Len(master.rows) - TestSize(Len(master.rows)) <= 0
    /\ last_exit' = Exit("training", "error")
    /\ results' = <<>>
    /\ wrote' = {}
    /\ UNCHANGED <<old_data, raw, processed_dir, master, provenance,
                   rainfall_expanded, final_df, model_pkl, running, pc, loaded,
                   frame, screen>>

-----------------------------------------------------------------------------
(* The persisted pipeline's predict *)

Inf == [t |-> "inf", n |-> 0, d |-> 1]

AllZero == Text("<all-zero>")

\* the encoder made with handle_unknown='error'
PredictKnownOnly(model, row) ==
    IF \/ ~(cat_features \cup num_features \subseteq DOMAIN row)
       \/ \E c \in num_features : row[c].t = "inf"
       \/ \E f \in cat_features : row[f] \notin model.categories[f]
    THEN [made |-> TRUE, raised |-> TRUE, encoding |-> <<>>]
    ELSE [made |-> TRUE, raised |-> FALSE, encoding |-> [f \in cat_features |-> row[f]]]

\* training.py lines 50-57 and 80-81, as predict runs them on one row: the
\* column transformer needs its nine columns, the imputer refuses an infinite
\* number (NaN it fills in), the encoder turns a category it was not fitted on
\* into zeros (handle_unknown='ignore')
Predict(model, row) ==
    IF \/ ~(cat_features \cup num_features \subseteq DOMAIN row)
       \/ \E c \in num_features : row[c].t = "inf"
    THEN [made |-> TRUE, raised |-> TRUE, encoding |-> <<>>]
    ELSE [made |-> TRUE, raised |-> FALSE,
          encoding |-> [f \in cat_features |->
                          IF row[f] \in model.categories[f] THEN row[f] ELSE AllZero]]

-----------------------------------------------------------------------------
(* The text front end, src/app.py *)

\* float(): what it makes of each text the user may type
ParseFloat(entry) ==
    CASE entry = "10" -> Num(10)
      [] entry = " 800 " -> Num(800)
      [] entry = "6.5" -> Frac(13, 2)
      [] entry = "nan" -> NaN
      [] entry = "inf" -> Inf
      [] entry = "1e999" -> Inf
      [] OTHER -> [t |-> "ValueError", n |-> 0, d |-> 1]

AppFrameWithYear(district, season, crop, area, rainfall, ph) ==
    [District_Name |-> district, Season |-> season, Crop |-> crop, Area |-> area,
     Actual_Rainfall |-> rainfall, pH_min |-> ph, pH_max |-> ph,
     pH_min_Range |-> Frac(11, 2), pH_max_Range |-> Frac(17, 2), Crop_Year |-> 2015]

\* lines 47-59
AppFrame(district, season, crop, area, rainfall, ph) ==
    [District_Name |-> district, Season |-> season, Crop |-> crop, Area |-> area,
     Actual_Rainfall |-> rainfall, pH_min |-> ph, pH_max |-> ph,
     pH_min_Range |-> Frac(11, 2), pH_max_Range |-> Frac(17, 2)]

DistrictEntries == {Padded(0, "pune", 1), Text("Atlantis")}

SeasonEntries == {Padded(1, "Kharif", 0)}

CropEntries == {Text("Rice"), Text("ZZZCROP")}

AreaEntries == {"10", "ten", "inf"}

RainfallEntries == {" 800 ", ""}

PhEntries == {"6.5", "nan", "6,5"}

\* load_resources, lines 6-18: the model is there
AppStart ==
    /\ running = "none"
    /\ model_pkl.exists
    /\ running' = "app"
    /\ pc' = "prompt"
    /\ loaded' = [model |-> model_pkl, df |-> Absent]
    /\ frame' = NoFrame
    /\ screen' = Blank
    /\ wrote' = {}
    /\ UNCHANGED <<old_data, raw, processed_dir, master, provenance,
                   rainfall_expanded, final_df, last_exit, results, model_pkl>>

\* load_resources, lines 14-15 and 19-21: no model, sys.exit(1)
AppNoModel ==
    /\ running = "none"
    /\ ~model_pkl.exists
    /\ last_exit' = Exit("app", "exit 1")
    /\ wrote' = {}
    /\ UNCHANGED <<old_data, raw, processed_dir, master, provenance,
                   rainfall_expanded, final_df, results, model_pkl, running, pc,
                   loaded, frame, screen>>

\* get_user_input, lines 23-59
GetUserInput ==
    /\ running = "app"
    /\ pc = "prompt"
    /\ \E district \in DistrictEntries, season \in SeasonEntries, crop \in CropEntries,
          area \in AreaEntries, rainfall \in RainfallEntries, ph \in PhEntries :
          IF \E entry \in {area, rainfall, ph} : ParseFloat(entry).t = "ValueError"
          THEN /\ frame' = [NoFrame EXCEPT !.typed = <<area, rainfall, ph>>]
               /\ screen' = [Blank EXCEPT !.msg = "Invalid number entered."]
          ELSE /\ frame' = [some |-> TRUE,
                            row |-> AppFrame(upper(strip(district)), strip(season),
                                             strip(crop), ParseFloat(area),
                                             ParseFloat(rainfall), ParseFloat(ph)),
                            typed |-> <<area, rainfall, ph>>]
               /\ screen' = Blank
    /\ pc' = "got"
    /\ wrote' = {}
    /\ UNCHANGED <<old_data, raw, processed_dir, master, provenance,
                   rainfall_expanded, final_df, last_exit, results, model_pkl,
                   running, loaded>>

\* main, lines 66-73: a frame came back; an exception of predict is caught
AppPredict ==
    /\ running = "app"
    /\ pc = "got"
    /\ frame.some
    /\ \E prediction \in {Predict(loaded.model, frame.row)} :
          screen' = [screen EXCEPT !.pred = prediction,
                                   !.msg = IF prediction.raised THEN "Prediction Error"
                                           ELSE "Predicted Production"]
    /\ pc' = "ask"
    /\ wrote' = {}
    /\ UNCHANGED <<old_data, raw, processed_dir, master, provenance,
                   rainfall_expanded, final_df, last_exit, results, model_pkl,
                   running, loaded, frame>>

\* main, line 66: get_user_input returned None
AppNoFrame ==
    /\ running = "app"
    /\ pc = "got"
    /\ ~frame.some
    /\ pc' = "ask"
    /\ wrote' = {}
    /\ UNCHANGED <<old_data, raw, processed_dir, master, provenance,
                   rainfall_expanded, final_df, last_exit, results, model_pkl,
                   running, loaded, frame, screen>>

LowerAsTyped(answer) == answer

\* str.lower() of what the user may answer
Lower(answer) == IF answer = "Y" THEN "y" ELSE answer

Answers == {"y", "Y", "n"}

\* main, lines 75-77: "Try another? (y/n)"
TryAnother ==
    /\ running = "app"
    /\ pc = "ask"
    /\ \E cont \in Answers :
          /\ screen' = [Blank EXCEPT !.reply = cont]
          /\ frame' = NoFrame
          /\ IF Lower(cont) # "y"
             THEN /\ running' = "none"
                  /\ pc' = "off"
                  /\ last_exit' = Exit("app", "ok")
                  /\ loaded' = Nothing
             ELSE /\ pc' = "prompt"
                  /\ UNCHANGED <<running, last_exit, loaded>>
    /\ wrote' = {}
    /\ UNCHANGED <<old_data, raw, processed_dir, master, provenance,
                   rainfall_expanded, final_df, results, model_pkl>>

-----------------------------------------------------------------------------
(* The dashboard, src/streamlit_app.py *)

DashFrameWithYear(sel_district, sel_season, sel_crop, area, rainfall, ph) ==
    [District_Name |-> sel_district, Season |-> sel_season, Crop |-> sel_crop,
     Area |-> area, Actual_Rainfall |-> rainfall, pH_min |-> ph, pH_max |-> ph,
     pH_min_Range |-> Frac(11, 2), pH_max_Range |-> Frac(17, 2), Crop_Year |-> 2015]

\* lines 69-73
DashFrame(sel_district, sel_season, sel_crop, area, rainfall, ph) ==
    [District_Name |-> sel_district, Season |-> sel_season, Crop |-> sel_crop,
     Area |-> area, Actual_Rainfall |-> rainfall, pH_min |-> ph, pH_max |-> ph,
     pH_min_Range |-> Frac(11, 2), pH_max_Range |-> Frac(17, 2)]

\* lines 56-58: df[col].unique()
Unique(df, col) == {df[i][col] : i \in 1..Len(df)}

\* line 66: the slider's default, which must not exceed the largest rainfall
SliderDefault == 800

\* lines 64-67: values the number input and the sliders can be set to
AreaSettings == {Num(1), Num(100)}

PhSettings == {Frac(13, 2)}

\* lines 21-30: both artifacts are there and are loaded
DashStart ==
    /\ running = "none"
    /\ model_pkl.exists /\ master.exists
    /\ running' = "dash"
    /\ pc' = "page"
    /\ loaded' = [model |-> model_pkl, df |-> master]
    /\ frame' = NoFrame
    /\ screen' = Blank
    /\ wrote' = {}
    /\ UNCHANGED <<old_data, raw, processed_dir, master, provenance,
                   rainfall_expanded, final_df, last_exit, results, model_pkl>>

\* lines 28, 32-34: an artifact is missing, st.stop()
DashHalt ==
    /\ running = "none"
    /\ ~(model_pkl.exists /\ master.exists)
    /\ last_exit' = Exit("dash", "halt")
    /\ wrote' = {}
    /\ UNCHANGED <<old_data, raw, processed_dir, master, provenance,
                   rainfall_expanded, final_df, results, model_pkl, running, pc,
                   loaded, frame, screen>>

\* lines 56-83: the widgets are set and Predict is pressed
DashPredict ==
    /\ running = "dash"
    /\ pc \in {"page", "predicted"}
    /\ \E r \in Unique(loaded.df.rows, "Actual_Rainfall") :
          r.t = "num" /\ r.n >= SliderDefault * r.d
    /\ \E sel_district \in Unique(loaded.df.rows, "District_Name"),
          sel_season \in Unique(loaded.df.rows, "Season"),
          sel_crop \in Unique(loaded.df.rows, "Crop"),
          area \in AreaSettings, ph \in PhSettings :
       \E input_df \in {DashFrame(sel_district, sel_season, sel_crop, area,
                                  Num(SliderDefault), ph)} :
          /\ frame' = [some |-> TRUE, row |-> input_df, typed |-> <<>>]
          /\ screen' = [screen EXCEPT !.pred = Predict(loaded.model, input_df),
                                      !.msg = "Prediction Result"]
    /\ pc' = "predicted"
    /\ wrote' = {}
    /\ UNCHANGED <<old_data, raw, processed_dir, master, provenance,
                   rainfall_expanded, final_df, last_exit, results, model_pkl,
                   running, loaded>>

\* the dashboard is shut down
DashStop ==
    /\ running = "dash"
    /\ running' = "none"
    /\ pc' = "off"
    /\ last_exit' = Exit("dash", "ok")
    /\ loaded' = Nothing
    /\ frame' = NoFrame
    /\ screen' = Blank
    /\ wrote' = {}
    /\ UNCHANGED <<old_data, raw, processed_dir, master, provenance,
                   rainfall_expanded, final_df, results, model_pkl>>

-----------------------------------------------------------------------------
(* The whole pipeline, from an empty project directory *)

WetMonths ==
    [January |-> Num(0), February |-> Num(5), March |-> Num(10), April |-> Num(20),
     May |-> Num(40), June |-> Num(250), July |-> Num(300), August |-> Num(280),
     September |-> Num(150), October |-> Num(60), November |-> Num(20),
     December |-> Num(5)]

SixCrops ==
    <<CropRow(Text("PUNE"), 2015, Padded(0, "Kharif", 5), Text("Rice"), Num(10), Num(25)),
      CropRow(Text("PUNE"), 2015, Padded(0, "Rabi", 7), Text("Rice"), Num(12), Num(20)),
      CropRow(Text("PUNE"), 2015, Padded(0, "Kharif", 5), Text("Rice"), Num(30), Num(70)),
      CropRow(Text("PUNE"), 2015, Padded(0, "Kharif", 5), Text("Rice"), Num(8), Num(15)),
      CropRow(Text("PUNE"), 2015, Padded(0, "Rabi", 7), Text("Rice"), Num(5), Num(9)),
      CropRow(Text("AKOLA"), 2015, Padded(0, "Kharif", 5), Text("Wheat"), Num(40), Num(60))>>

ThreeCrops == SubSeq(SixCrops, 1, 3)

TwoDistrictsRain ==
    <<RainRow(Text("PUNE"), 2015, WetMonths, Num(1140)),
      RainRow(Text("AKOLA"), 2015, WetMonths, NA)>>

OldData ==
    {[f \in RawNames |-> IF f \in there THEN tables[f] ELSE Absent] :
        there \in SUBSET RawNames,
        tables \in {RawTables(crop, TwoDistrictsRain, PuneSoil, RiceSoil) :
                       crop \in {SixCrops, ThreeCrops}}}

InitPipeline ==
    /\ old_data \in OldData
    /\ raw = [f \in RawNames |-> Absent]
    /\ processed_dir = FALSE
    /\ master = Absent
    /\ provenance = <<>>
    /\ rainfall_expanded = <<>>
    /\ final_df = <<>>
    /\ last_exit = Exit("none", "never")
    /\ results = <<>>
    /\ wrote = {}
    /\ model_pkl = NoModel
    /\ NoFrontEnd

NextPipeline ==
    \/ Setup
    \/ LoadData
    \/ LoadDataFail
    \/ TrainModels
    \/ TrainFail
    \/ AppStart
    \/ AppNoModel
    \/ GetUserInput
    \/ AppPredict
    \/ AppNoFrame
    \/ TryAnother
    \/ DashStart
    \/ DashHalt
    \/ DashPredict
    \/ DashStop

SpecPipeline == InitPipeline /\ [][NextPipeline]_vars

-----------------------------------------------------------------------------
(* The ingestion stage's properties, over the raw rainfall and crop files *)

RainFile == raw["MaharashtrastateRainfall.csv"].rows

CropFile == raw["CropData.csv"].rows

\* a monthly total as the aggregates count it: missing or non-numeric is zero
Counted(c) == IF c.t = "num" /\ c.d = 1 THEN c.n ELSE 0

SameDistrict(a, b) == strip(upper(a)) = strip(upper(b))

\* the rainfall rows of district/year (d, y + 1) for rainfall row i = (d, y)
NextYearRows(i) ==
    {j \in 1..Len(RainFile) :
        /\ SameDistrict(RainFile[j].District, RainFile[i].District)
        /\ RainFile[j].Year = RainFile[i].Year + 1}

Expanded == {rainfall_expanded[k] : k \in 1..Len(rainfall_expanded)}

LateMonths(r) == Counted(r.October) + Counted(r.November) + Counted(r.December)

EarlyMonths(r) == Counted(r.January) + Counted(r.February) + Counted(r.March)

\* C1: every rainfall row (d, y) has its Rabi aggregate equal to October +
\* November + December of that row plus January + February + March of a rainfall
\* row (d, y + 1) of the same district, each of those three months counted as
\* zero when there is no such row or the month is missing.
C1_RabiLooksAhead ==
    /\ \A e \in Expanded :
          /\ e.idx \in 1..Len(RainFile)
          /\ IF NextYearRows(e.idx) = {}
             THEN e.idx_next = 0 /\ e.Rain_Rabi = Num(LateMonths(RainFile[e.idx]))
             ELSE /\ e.idx_next \in NextYearRows(e.idx)
                  /\ e.Rain_Rabi = Num(LateMonths(RainFile[e.idx])
                                        + EarlyMonths(RainFile[e.idx_next]))
    /\ last_exit = Exit("ingestion", "ok") =>
          \A i \in 1..Len(RainFile) : \E e \in Expanded : e.idx = i

\* a row whose next-year row exists and adds rain to its Rabi aggregate, and a
\* row that has no next-year row
C1_Witness ==
    /\ \E e \in Expanded :
          /\ e.idx_next # 0
          /\ EarlyMonths(RainFile[e.idx_next]) > 0
          /\ EarlyMonths(RainFile[e.idx_next]) # EarlyMonths(RainFile[e.idx])
          /\ e.Rain_Rabi = Num(LateMonths(RainFile[e.idx])
                                + EarlyMonths(RainFile[e.idx_next]))
    /\ \E e \in Expanded : e.idx_next = 0

KharifSum(r) ==
    Counted(r.June) + Counted(r.July) + Counted(r.August) + Counted(r.September)
        + Counted(r.October)

IsExampleRow(r) ==
    /\ r.June = Num(150) /\ r.July = Num(200) /\ r.August = Num(180)
    /\ r.September = Num(90) /\ r.October = Num(40)

\* C2: every rainfall row has its Kharif aggregate equal to June + July + August
\* + September + October of that same row, a missing or non-numeric month
\* counting as zero; the row June=150, July=200, August=180, September=90,
\* October=40 has Rain_Kharif = 660.
C2_KharifIsJuneToOctober ==
    \A e \in Expanded :
        /\ e.Rain_Kharif = Num(KharifSum(RainFile[e.idx]))
        /\ IsExampleRow(RainFile[e.idx]) => e.Rain_Kharif = Num(660)

\* the example row of PUNE, 2015, and a row with months that are not numbers
C2_Witness ==
    /\ \E e \in Expanded :
          /\ e.District = Text("PUNE") /\ e.Year = 2015
          /\ IsExampleRow(RainFile[e.idx])
          /\ e.Rain_Kharif = Num(660)
    /\ \E e \in Expanded :
          /\ RainFile[e.idx].June = NA /\ RainFile[e.idx].August = Junk
          /\ e.Rain_Kharif = Num(112)

\* the crop record behind a master row, as the file has it
CropOf(k) == CropFile[provenance[k].crop]

\* the rainfall rows of the district and year of crop record i
RainRowsOf(i) ==
    {j \in 1..Len(RainFile) :
        /\ SameDistrict(RainFile[j].District, CropFile[i].District_Name)
        /\ RainFile[j].Year = CropFile[i].Crop_Year}

SeasonOf(i) == strip(CropFile[i].Season).core

\* the aggregate the season of crop record i selects in rainfall row j is there
HasAggregate(i, j) ==
    /\ SeasonOf(i) \in DOMAIN season_map
    /\ \E e \in Expanded : e.idx = j /\ ~isna(e[season_map[SeasonOf(i)]])

InMaster(i) == \E k \in 1..Len(provenance) : provenance[k].crop = i

\* C3: once the merge stage has written the Master Table, no row of it has a
\* missing Actual_Rainfall or Production, and a crop record with no rainfall row
\* for its district and year, with a season outside the season map, with its
\* selected aggregate missing, or with missing production is not in it.
C3_NoMissingRainfallOrProduction ==
    master.exists =>
        /\ \A k \in 1..Len(master.rows) :
              /\ ~isna(master.rows[k].Actual_Rainfall)
              /\ ~isna(master.rows[k].Production)
        /\ Len(provenance) = Len(master.rows)
        /\ \A i \in 1..Len(CropFile) :
              \/ ~InMaster(i)
              \/ /\ ~isna(CropFile[i].Production)
                 /\ SeasonOf(i) \in DOMAIN season_map
                 /\ \E j \in RainRowsOf(i) : HasAggregate(i, j)

\* a written Master Table that holds one crop record and lacks another, whose
\* production is missing though its rainfall is there
C3_Witness ==
    /\ master.exists
    /\ Len(master.rows) > 0
    /\ \E i \in 1..Len(CropFile) :
          ~InMaster(i) /\ isna(CropFile[i].Production)
             /\ SeasonOf(i) \in DOMAIN season_map
             /\ \E j \in RainRowsOf(i) : HasAggregate(i, j)

TwelveMonths(r) ==
    EarlyMonths(r) + Counted(r.April) + Counted(r.May) + KharifSum(r)
        + Counted(r.November) + Counted(r.December)

\* C10 as claimed: every rainfall row has its Whole-Year aggregate equal to the
\* sum of its twelve monthly totals.
C10_WholeYearIsSumOfMonths ==
    \A e \in Expanded : e.Rain_WholeYear = Num(TwelveMonths(RainFile[e.idx]))

\* the Annual_Total cell of the file as load_data reads it
AnnualTotalRead(r) == IF r.Annual_Total = NA THEN NaN ELSE r.Annual_Total

\* C10 as amended: every rainfall row has its Whole-Year aggregate equal to the
\* Annual_Total cell of that row in the file ('N.A.' read as missing), whatever
\* the twelve months sum to, and that cell is the Actual_Rainfall of every
\* Master Table row of a 'Whole Year' crop record.
C10_WholeYearIsAnnualTotal ==
    /\ \A e \in Expanded : e.Rain_WholeYear = AnnualTotalRead(RainFile[e.idx])
    /\ \A k \in 1..Len(provenance) :
          SeasonOf(provenance[k].crop) = "Whole Year" =>
              /\ provenance[k].rain \in RainRowsOf(provenance[k].crop)
              /\ master.rows[k].Actual_Rainfall
                     = AnnualTotalRead(RainFile[provenance[k].rain])

\* a Master Table row of a 'Whole Year' crop record whose rainfall is the file's
\* annual total and not the sum of the months
C10_Witness ==
    \E k \in 1..Len(provenance) :
        /\ SeasonOf(provenance[k].crop) = "Whole Year"
        /\ master.rows[k].Actual_Rainfall = Num(700)
        /\ TwelveMonths(RainFile[provenance[k].rain]) = 4095


SoilFile == raw["District_ph.csv"].rows

\* the district has a District Soil Record
HasSoilRecord(district) ==
    \E j \in 1..Len(SoilFile) : SameDistrict(SoilFile[j].City, district)

\* the mean of a pH column over the merged rows whose value is known from a
\* District Soil Record, rows later dropped included
KnownMean(col) ==
    Mean(SelectSeq(final_df, LAMBDA r : HasSoilRecord(r.District_Name)), col)

\* C11: in the written Master Table every row whose district has no District
\* Soil Record has pH_min and pH_max equal to the mean of the column over all
\* merged rows with a known value, rows later dropped included, and so no row
\* of the Master Table has a missing pH_min or pH_max.
C11_PhImputedWithMean ==
    master.exists =>
        \A k \in 1..Len(master.rows) :
            /\ ~HasSoilRecord(master.rows[k].District_Name) =>
                  /\ master.rows[k].pH_min = KnownMean("pH_min")
                  /\ master.rows[k].pH_max = KnownMean("pH_max")
            /\ ~isna(master.rows[k].pH_min)
            /\ ~isna(master.rows[k].pH_max)

\* the Master Table rows that come from crop record i
MasterRowsOf(i) == {k \in 1..Len(provenance) : provenance[k].crop = i}

\* C12: the left joins of the merge stage never multiply crop records: every
\* crop record yields at most one row of the written Master Table, which so has
\* no more rows than the crop-record table, and a crop record with a rainfall
\* row for its district and year, a mapped season and a production that is not
\* missing yields exactly one row.
C12_JoinsNeverMultiply ==
    master.exists =>
        /\ Len(master.rows) <= Len(CropFile)
        /\ \A i \in 1..Len(CropFile) :
              /\ Cardinality(MasterRowsOf(i)) <= 1
              /\ (/\ RainRowsOf(i) # {}
                  /\ SeasonOf(i) \in DOMAIN season_map
                  /\ ~isna(CropFile[i].Production)) =>
                    Cardinality(MasterRowsOf(i)) = 1

-----------------------------------------------------------------------------
(* The properties of training and of the front ends *)

Scored == Len(results) = Len(models) /\ \A i \in 1..Len(results) : results[i].R2.t = "num"

Below(a, b) == a.n * b.d < b.n * a.d

\* candidate i has the highest score, and no candidate before it has it
FirstMaximum(i) ==
    /\ \A j \in 1..Len(results) : ~Below(results[i].R2, results[j].R2)
    /\ \A j \in 1..(i - 1) : Below(results[j].R2, results[i].R2)

\* C4: once the four candidates, in the order Linear Regression, Decision Tree,
\* Random Forest, XGBoost, are scored, the persisted pipeline is the one with the
\* highest held-out R2, and of several with that score the first met.
C4_FirstMaximumPersisted ==
    /\ results # <<>> => \A i \in 1..Len(models) : results[i].Model = models[i]
    /\ Scored =>
          /\ model_pkl.exists
          /\ \E i \in 1..Len(results) :
                FirstMaximum(i) /\ model_pkl.name = results[i].Model
    /\ model_pkl.exists => Scored

\* Decision Tree and Random Forest share the highest score, and Decision Tree,
\* met first, is persisted
C4_Witness ==
    /\ Scored
    /\ results[1].R2 = Frac(1, 2) /\ results[2].R2 = Frac(9, 10)
    /\ results[3].R2 = Frac(9, 10) /\ results[4].R2 = Frac(1, 2)
    /\ model_pkl.name = "Decision Tree"

\* C5 as claimed: the input frame of either front end has exactly the columns of
\* the Master Table without Production.
C5_FrameIsMasterWithoutProduction ==
    frame.some => DOMAIN frame.row = cols_to_keep \ {"Production"}

\* C5 as amended: the Master Table has the eleven columns of cols_to_keep, and
\* the input frame of either front end has exactly those without Production
\* and without Crop_Year, which are the nine columns the pipeline's column
\* transformer selects.
C5_FrameIsTheNineFeatures ==
    /\ \A k \in 1..Len(master.rows) : DOMAIN master.rows[k] = cols_to_keep
    /\ frame.some =>
          /\ DOMAIN frame.row = cols_to_keep \ {"Production", "Crop_Year"}
          /\ DOMAIN frame.row = cat_features \cup num_features

\* the text front end has built a frame, after the dashboard built one and
\* predicted from it
C5_Witness ==
    /\ running = "app" /\ frame.some
    /\ screen.pred.made /\ ~screen.pred.raised
    /\ last_exit = Exit("dash", "ok")
    /\ master.exists /\ Len(master.rows) > 0

\* C6: no dashboard prediction is made from an all-zero encoding: every
\* district, season and crop the dashboard lets the user select was seen by the
\* persisted pipeline's encoder when it was fitted.
C6_DashboardNeverUnseen ==
    (running = "dash" /\ screen.pred.made /\ ~screen.pred.raised) =>
        \A f \in cat_features :
            /\ frame.row[f] \in loaded.model.categories[f]
            /\ screen.pred.encoding[f] # AllZero

NotANumber(frm) == \E k \in 1..Len(frm.typed) : ParseFloat(frm.typed[k]).t = "ValueError"

\* the text front end is at "Try another?" after an entry that did not parse
AskAfterInvalid == running = "app" /\ pc = "ask" /\ NotANumber(frame)

\* C7 as claimed: after an area, rainfall or pH entry that does not parse, the
\* loop prompts for the farm parameters again.
C7_InvalidNumberReprompts ==
    [][AskAfterInvalid => pc' = "prompt"]_vars

\* C7 as amended: an area, rainfall or pH entry that does not parse is reported
\* as an invalid number and no prediction is made from it; the loop then asks
\* "Try another?", and prompts for the farm parameters again when the answer is
\* y or Y, and ends the program on any other answer.
C7_InvalidNumberAsksToContinue ==
    [][/\ (running = "app" /\ pc' = "got" /\ NotANumber(frame')) =>
             /\ ~frame'.some
             /\ screen'.msg = "Invalid number entered."
             /\ ~screen'.pred.made
       /\ (running = "app" /\ pc = "got" /\ NotANumber(frame)) =>
             /\ pc' = "ask"
             /\ screen' = screen
             /\ frame' = frame
       /\ AskAfterInvalid =>
             IF screen'.reply \in {"y", "Y"}
             THEN running' = "app" /\ pc' = "prompt"
             ELSE running' = "none" /\ pc' = "off" /\ last_exit' = Exit("app", "ok")]_vars

\* the loop asks "Try another?" after the pH entry 6,5 was reported as invalid
\* and no prediction was made
C7_Witness ==
    /\ AskAfterInvalid
    /\ frame.typed = <<"10", " 800 ", "6,5">>
    /\ ~frame.some
    /\ screen.msg = "Invalid number entered."
    /\ ~screen.pred.made

\* the text front end has predicted from a frame
AppPredicted == running = "app" /\ pc = "ask" /\ frame.some

Infinite(row) == \E c \in num_features : row[c] = Inf

AllRaw == \A f \in RawNames : raw[f].exists

NothingWritten == wrote' = {} /\ master' = master /\ model_pkl' = model_pkl /\ raw' = raw

\* C9: the ingestion stage writes the Master Table only when the four raw files
\* are there and fails otherwise, the training stage writes the model only when
\* the Master Table is there and fails otherwise, the text front end predicts
\* only with the model there and exits with status 1 otherwise, the dashboard
\* predicts only with both artifacts there and halts otherwise; a stage that
\* fails writes no file, and no stage writes a file upstream of it.
C9_DownstreamOnly ==
    [][/\ "master_dataset.csv" \in wrote' => AllRaw /\ wrote' = {"master_dataset.csv"}
       /\ master' # master => "master_dataset.csv" \in wrote' /\ master'.exists
       /\ "crop_yield_model.pkl" \in wrote' =>
             master.exists /\ wrote' = {"crop_yield_model.pkl"}
       /\ model_pkl' # model_pkl =>
             "crop_yield_model.pkl" \in wrote' /\ model_pkl'.exists /\ master' = master
       /\ (running' = "app" /\ screen'.pred.made) =>
             model_pkl.exists /\ loaded'.model = model_pkl
       /\ (running' = "dash" /\ screen'.pred.made) =>
             /\ model_pkl.exists /\ master.exists
             /\ loaded' = [model |-> model_pkl, df |-> master]
       /\ running' # "none" => NothingWritten
       /\ last_exit'.status \in {"error", "exit 1", "halt"} => NothingWritten
       /\ last_exit' # last_exit =>
             /\ last_exit'.prog = "ingestion" => (last_exit'.status = "ok" <=> AllRaw)
             /\ last_exit'.prog = "training" =>
                   (last_exit'.status = "ok" => master.exists)
             /\ last_exit'.prog = "app" =>
                   (last_exit'.status = "exit 1" <=> ~model_pkl.exists)
             /\ last_exit'.prog = "dash" =>
                   (last_exit'.status = "halt" <=> ~(model_pkl.exists /\ master.exists))
       /\ (running = "none" /\ running' = "app") => model_pkl.exists
       /\ (running = "none" /\ running' = "dash") => model_pkl.exists /\ master.exists]_vars

\* the dashboard has predicted, the text front end having failed for want of a
\* model before training ran
C9_Witness ==
    /\ running = "dash" /\ screen.pred.made
    /\ master.exists /\ model_pkl.exists
    /\ AllRaw

=============================================================================
